---------------------------- MODULE Spec2Model ----------------------------
(***************************************************************************)
(* Model of src/bot.py: the clinic knowledge-base bot.                     *)
(*                                                                         *)
(* Strings are sequences of one-character strings, so that strip(),        *)
(* lower(), "in" and slicing are computed and not assumed.                 *)
(*                                                                         *)
(* Every handler is a coroutine.  The model lets other sessions run at the *)
(* await of GoogleSheetsManager.fetch_data(); the transport awaits a       *)
(* handler makes before it first touches shared state are folded into the  *)
(* handler's first step together with their outcome (returned or raised),  *)
(* and the final render, after which a handler changes nothing, is folded  *)
(* into its last step.  shown[s] is the last body and control set the      *)
(* handler of session s handed to the transport.                           *)
(***************************************************************************)
EXTENDS Integers, Sequences, FiniteSets, TLC

\* ------------------------------------------------------------------ bounds
Sessions == {1, 2}
MaxTime == 2
MaxStack == 2
MaxAttempts == 4

\* Config.CACHE_DURATION, in units of half an hour of time.time()
CACHE_DURATION == 2
MAX_SEARCH_RESULTS == 5

\* Optional[...]: the empty sequence is None, <<x>> is a value x
None == <<>>
\* DataCache.last_update is None
NoTime == 0 - 1

\* ------------------------------------------------------------ string data
BACK == <<"b","a","c","k">>
REFRESH == <<"r","e","f","r","e","s","h">>
MAIN_MENU == <<"m","a","i","n","_","m","e","n","u">>

\* _show_contacts, line 575: the id of the contacts item
MAIN_CONTACTS == <<"m","a","i","n","_","c","o","n","t","a","c","t","s">>

A == <<"a">>
B == <<"b">>
ItemIds == {A, B}

T_MENU == <<"m","e","n","u">>
T_SUBMENU == <<"s","u","b","m","e","n","u">>
T_PHONE == <<"p","h","o","n","e">>
T_LINK == <<"l","i","n","k">>
T_TEXT == <<"t","e","x","t">>
T_EMAIL == <<"e","m","a","i","l">>

\* a conversion of the type that takes an unknown string for "phone"
ContentType_unknown_is_phone(str) ==
    CASE str = T_TEXT -> "TEXT"
      [] str = T_MENU -> "MENU"
      [] str = T_SUBMENU -> "SUBMENU"
      [] str = T_LINK -> "LINK"
      [] str = T_EMAIL -> "EMAIL"
      [] OTHER -> "PHONE"

\* ContentType(content_type_str), ValueError handled as in from_row
ContentType(str) ==
    CASE str = T_TEXT -> "TEXT"
      [] str = T_PHONE -> "PHONE"
      [] str = T_MENU -> "MENU"
      [] str = T_SUBMENU -> "SUBMENU"
      [] str = T_LINK -> "LINK"
      [] str = T_EMAIL -> "EMAIL"
      [] OTHER -> "TEXT"

SetMin(S) == CHOOSE x \in S : \A y \in S : x <= y
SetMax(S) == CHOOSE x \in S : \A y \in S : x >= y

\* str.strip()
Strip(str) ==
    LET idx == {i \in DOMAIN str : str[i] # " "}
    IN  IF idx = {} THEN <<>> ELSE SubSeq(str, SetMin(idx), SetMax(idx))

\* a conversion that also drops a row whose parent is empty
from_row_needs_parent(row) ==
    IF Len(row) < 3 THEN None
    ELSE LET callback_data == Strip(row[1])
             parent == Strip(row[2])
             text == Strip(row[3])
         IN  IF callback_data = <<>> \/ parent = <<>> \/ text = <<>> THEN None
             ELSE <<[callback_data |-> callback_data,
                   parent |-> parent,
                   text |-> text,
                   data |-> IF Len(row) > 3 THEN Strip(row[4]) ELSE <<>>,
                   content_type |-> ContentType(IF Len(row) > 4 THEN Strip(row[5]) ELSE T_TEXT),
                   extra |-> IF Len(row) > 5 THEN Strip(row[6]) ELSE <<>>]>>

\* MenuItem.from_row: None for a row that is dropped, else <<item>>
from_row(row) ==
    IF Len(row) < 3 THEN None
    ELSE LET callback_data == Strip(row[1])
             parent == Strip(row[2])
             text == Strip(row[3])
         IN  IF callback_data = <<>> \/ text = <<>> THEN None
             ELSE <<[callback_data |-> callback_data,
                   parent |-> parent,
                   text |-> text,
                   data |-> IF Len(row) > 3 THEN Strip(row[4]) ELSE <<>>,
                   content_type |-> ContentType(IF Len(row) > 4 THEN Strip(row[5]) ELSE T_TEXT),
                   extra |-> IF Len(row) > 5 THEN Strip(row[6]) ELSE <<>>]>>

\* the loop of GoogleSheetsManager.fetch_data over raw_data[1:]
RECURSIVE BuildItems(_, _)
BuildItems(raw_data, i) ==
    IF i > Len(raw_data) THEN <<>>
    ELSE LET row == raw_data[i]
             blank == row = <<>> \/ \A j \in DOMAIN row : Strip(row[j]) = <<>>
             item == IF blank THEN None ELSE from_row(row)
         IN  item \o BuildItems(raw_data, i + 1)

fetch_data(raw_data) == BuildItems(raw_data, 2)

\* The contents the spreadsheet can have (get_all_values(), header first).
HeaderRow == <<<<"i","d">>, <<"p">>, <<"t">>>>
Sheets ==
    << \* 1: a root menu; b a submenu under a; a second row with id b, a phone under b
       << HeaderRow,
          <<A, <<>>, <<"M","e","d">>, <<>>, T_MENU>>,
          <<<<" ","b">>, A, <<"L","a","b">>, <<"x">>, T_SUBMENU, <<"n">>>>,
          <<>>,
          <<B, B, <<"T","e","l">>, <<"8"," ","1">>, T_PHONE>> >>,
       \* 2: a is a root phone; b is gone; one short row and one row without id
       << HeaderRow,
          <<A, <<" ">>, <<"T","e","l">>, <<"8","-","2">>, T_PHONE>>,
          <<B, A>>,
          <<<<" ">>, A, <<"L","a","b">> >> >>,
       \* 3: no root at all: b and the contacts item hang under a missing
       \* parent; under b an item whose id is the action of the back button
       << HeaderRow,
          <<B, A, <<"U","r","l">>, <<"u">>, T_LINK>>,
          <<MAIN_CONTACTS, A, <<"P","b","x">>, <<"0","3">>, T_PHONE>>,
          <<BACK, B, <<"O","u","t">>, <<>>, T_TEXT>> >> >>
SheetIds == DOMAIN Sheets

\* ------------------------------------------------------- tree and search
\* a lookup that returns the last item with that callback_data
_find_last_menu_item(items, callback_data) ==
    LET idx == {i \in DOMAIN items : items[i].callback_data = callback_data}
    IN  IF idx = {} THEN None ELSE <<items[SetMax(idx)]>>

\* ClinicBot._find_menu_item: <<the first item with that callback_data>>, else None
_find_menu_item(items, callback_data) ==
    LET idx == {i \in DOMAIN items : items[i].callback_data = callback_data}
    IN  IF idx = {} THEN None ELSE <<items[SetMin(idx)]>>

\* str.lower() on the alphabet of the model
LowerChar(c) ==
    CASE c = "M" -> "m" [] c = "L" -> "l" [] c = "T" -> "t" [] c = "U" -> "u"
      [] c = "E" -> "e" [] c = "A" -> "a" [] OTHER -> c
Lower(str) == [i \in DOMAIN str |-> LowerChar(str[i])]

\* needle in haystack
Contains(haystack, needle) ==
    \E i \in 0..(Len(haystack) - Len(needle)) :
        SubSeq(haystack, i + 1, i + Len(needle)) = needle

\* a search that appends an item once for every field that matches
RECURSIVE _search_items_per_field(_, _)
_search_items_per_field(items, search_text) ==
    IF items = <<>> THEN <<>>
    ELSE LET item == Head(items)
             Hit(field) == IF Contains(Lower(field), Lower(search_text)) THEN <<item>> ELSE <<>>
         IN  Hit(item.text) \o Hit(item.data) \o Hit(item.extra)
             \o _search_items_per_field(Tail(items), search_text)

\* ClinicBot._search_items
_search_items(items, search_text) ==
    LET search_lower == Lower(search_text)
        Match(item) == \/ Contains(Lower(item.text), search_lower)
                       \/ Contains(Lower(item.data), search_lower)
                       \/ Contains(Lower(item.extra), search_lower)
    IN  SelectSeq(items, Match)

Take(seq, n) == SubSeq(seq, 1, IF Len(seq) < n THEN Len(seq) ELSE n)
Ids(items) == [i \in DOMAIN items |-> items[i].callback_data]

\* ---------------------------------------------------------------- renders
\* What a handler hands to the transport: the kind of body, the item it is
\* about (None when it is about none) and the callback_data of the controls.
Render(kind, item, actions) == [kind |-> kind, item |-> item, actions |-> actions]

NothingShown == Render("none", None, <<>>)
\* an error screen that offers back instead of refresh
_show_error_with_back(error_text) == Render(error_text, None, <<BACK, MAIN_MENU>>)
\* ClinicBot._show_error
_show_error(error_text) == Render(error_text, None, <<MAIN_MENU, REFRESH>>)
\* no error handler registered: an exception a handler lets out shows nothing
error_handler_unregistered == Render("none", None, <<>>)
\* ClinicBot.error_handler: the notice sent for an exception a handler let out
error_handler == Render("internal_error", None, <<>>)
\* ClinicBot._handle_refresh, query.edit_message_text
RefreshNotice == Render("refreshing", None, <<>>)
\* ClinicBot.menu_command, update.message.reply_text
MenuLoading == Render("loading_menu", None, <<>>)

\* ClinicBot._show_text_content
_show_text_content(item) == Render("text", <<item>>, <<BACK, MAIN_MENU>>)
\* ClinicBot._show_phone_content
_show_phone_content(item) == Render("phone", <<item>>, <<BACK, MAIN_MENU>>)
\* ClinicBot._show_link_content
_show_link_content(item) == Render("link", <<item>>, <<BACK, MAIN_MENU>>)

\* a menu that gives a submenu the controls of a root menu
_show_menu_without_back(parent_item, menu_data, is_main) ==
    LET IsChild(item) == item.parent = parent_item.callback_data
        children == SelectSeq(menu_data, IsChild)
    IN  IF children = <<>> THEN _show_text_content(parent_item)
        ELSE Render("menu", <<parent_item>>, Ids(children) \o <<MAIN_MENU, REFRESH>>)

\* ClinicBot._show_menu
_show_menu(parent_item, menu_data, is_main) ==
    LET IsChild(item) == item.parent = parent_item.callback_data
        children == SelectSeq(menu_data, IsChild)
        nav_buttons == (IF is_main THEN <<>> ELSE <<BACK>>) \o <<MAIN_MENU, REFRESH>>
    IN  IF children = <<>> THEN _show_text_content(parent_item)
        ELSE Render("menu", <<parent_item>>, Ids(children) \o nav_buttons)

\* ClinicBot._show_item_content
_show_item_content(item, menu_data) ==
    CASE item.content_type = "MENU" -> _show_menu(item, menu_data, TRUE)
      [] item.content_type = "SUBMENU" -> _show_menu(item, menu_data, FALSE)
      [] item.content_type = "PHONE" -> _show_phone_content(item)
      [] item.content_type = "LINK" -> _show_link_content(item)
      [] OTHER -> _show_text_content(item)

\* a main menu that lists every item of the snapshot
_show_main_menu_of_all(menu_data) == Render("main_menu", None, Ids(menu_data) \o <<REFRESH>>)

\* ClinicBot._show_main_menu, once it holds menu_data
_show_main_menu(menu_data) ==
    LET IsRoot(item) == item.parent = <<>>
        main_items == SelectSeq(menu_data, IsRoot)
    IN  IF main_items = <<>> THEN _show_error("error:menu_not_configured")
        ELSE Render("main_menu", None, Ids(main_items) \o <<REFRESH>>)

\* ClinicBot._handle_search, once it holds menu_data
_handle_search(menu_data, search_text) ==
    LET results == _search_items(menu_data, search_text)
    IN  IF results = <<>> THEN Render("search_nothing", None, <<>>)
        ELSE Render("search_results", None, Ids(Take(results, MAX_SEARCH_RESULTS)))

\* ------------------------------------------------------------ message text
\* The string literals of the source, character for character; a character
\* outside ASCII is written as one ASCII character ("*" for a pictogram).
MAX_MESSAGE_LENGTH == 4000
\* item.data[:100] in _handle_search
PREVIEW_LENGTH == 100
Ellipsis == <<".",".",".">>
PhoneOpen == <<"\n","\n","*"," ","<","a"," ","h","r","e","f","=","'","t","e","l",":","+">>
HrefClose == <<"'",">">>
AnchorClose == <<"<","/","a",">">>
ExtraMark == <<"\n","\n","*"," ">>
LinkOpen == <<"\n","\n","*"," ","<","a"," ","h","r","e","f","=","'">>
LinkClose == <<"'",">","P","e","r","e","j","t","i"," ","p","o"," ","s","s","y","l","k","e","<","/","a",">">>
SearchHeader == <<"*"," ","<","b",">","R","e","z","u","l","_","t","a","t","y"," ","p","o","i","s","k","a"," ","p","o"," ","z","a","p","r","o","s","u",":","<","/","b",">"," ">>
MoreOpen == <<".",".","."," ","i"," ","e","s","e"," ">>
MoreClose == <<" ","r","e","z","u","l","_","t","a","t","o","v">>
ErrorMark == <<"*","*"," ">>
NothingOpen == <<"*"," ","P","o"," ","z","a","p","r","o","s","u"," ","'">>
NothingClose == <<"'"," ","n","i","c","e","g","o"," ","n","e"," ","n","a","j","d","e","n","o">>

\* str(n) for a natural number n
RECURSIVE IntToStr(_)
IntToStr(n) ==
    LET digit == <<"0","1","2","3","4","5","6","7","8","9">>[(n % 10) + 1]
    IN  IF n < 10 THEN <<digit>> ELSE Append(IntToStr(n \div 10), digit)

\* re's \d on a str: the ASCII digits and every other decimal digit of
\* Unicode, of which one is kept here, ARABIC-INDIC DIGIT THREE, as one character
DecimalDigits == {"0","1","2","3","4","5","6","7","8","9","U+0663"}

\* a formatter that removes the other characters and keeps a leading 8
format_phone_keeps_8(text, phone, extra) ==
    LET IsDigit(c) == c \in DecimalDigits
        message == text \o PhoneOpen \o SelectSeq(phone, IsDigit) \o HrefClose \o phone \o AnchorClose
    IN  IF extra # <<>> THEN message \o ExtraMark \o extra ELSE message

\* MessageFormatter.format_phone
format_phone(text, phone, extra) ==
    LET IsDigit(c) == c \in DecimalDigits
        digits == SelectSeq(phone, IsDigit)
        formatted_phone == IF digits # <<>> /\ digits[1] = "8"
                           THEN <<"7">> \o Tail(digits) ELSE digits
        message == text \o PhoneOpen \o formatted_phone \o HrefClose \o phone \o AnchorClose
    IN  IF extra # <<>> THEN message \o ExtraMark \o extra ELSE message

\* MessageFormatter.format_text
format_text(text, data, extra) ==
    LET message == IF data # <<>> THEN text \o <<"\n","\n">> \o data ELSE text
    IN  IF extra # <<>> THEN message \o ExtraMark \o extra ELSE message

\* MessageFormatter.format_link
format_link(text, url, extra) ==
    LET message == text \o LinkOpen \o url \o LinkClose
    IN  IF extra # <<>> THEN message \o ExtraMark \o extra ELSE message

\* MessageFormatter.truncate_message with the default max_length
truncate_message(message) ==
    IF Len(message) <= MAX_MESSAGE_LENGTH THEN message
    ELSE SubSeq(message, 1, MAX_MESSAGE_LENGTH - 3) \o Ellipsis

\* the text that _show_text_content, _show_phone_content, _show_link_content
\* and _show_menu pass to _safe_edit_message, for the render r of an item
message_text(r) ==
    LET item == r.item[1]
    IN  CASE r.kind = "phone" -> format_phone(item.text, item.data, item.extra)
          [] r.kind = "link" -> format_link(item.text, item.data, item.extra)
          [] r.kind = "menu" -> IF item.data # <<>>
                                THEN item.text \o <<"\n","\n">> \o item.data ELSE item.text
          [] OTHER -> format_text(item.text, item.data, item.extra)

\* _handle_search, lines 599-606: the numbered entries of results[:MAX_SEARCH_RESULTS]
RECURSIVE ResultEntries(_, _)
ResultEntries(shown_results, i) ==
    IF i > Len(shown_results) THEN <<>>
    ELSE LET item == shown_results[i]
             preview == Take(item.data, PREVIEW_LENGTH)
                        \o (IF Len(item.data) > PREVIEW_LENGTH THEN Ellipsis ELSE <<>>)
         IN  IntToStr(i) \o <<"."," ","<","b",">">> \o item.text \o <<"<","/","b",">","\n">>
             \o (IF item.data # <<>> THEN <<" "," "," ">> \o preview \o <<"\n">> ELSE <<>>)
             \o <<"\n">>
             \o ResultEntries(shown_results, i + 1)

\* a response text that lists every result
response_text_uncapped(results, search_text) ==
    SearchHeader \o search_text \o <<"\n","\n">>
    \o ResultEntries(results, 1)
    \o (IF Len(results) > MAX_SEARCH_RESULTS
        THEN MoreOpen \o IntToStr(Len(results) - MAX_SEARCH_RESULTS) \o MoreClose
        ELSE <<>>)

\* _handle_search, lines 597-609: response_text
response_text(results, search_text) ==
    SearchHeader \o search_text \o <<"\n","\n">>
    \o ResultEntries(Take(results, MAX_SEARCH_RESULTS), 1)
    \o (IF Len(results) > MAX_SEARCH_RESULTS
        THEN MoreOpen \o IntToStr(Len(results) - MAX_SEARCH_RESULTS) \o MoreClose
        ELSE <<>>)

\* ------------------------------------------------------------------ state
VARIABLES
    sheet,      \* which of Sheets the spreadsheet holds now
    now,        \* time.time()
    cache,      \* ClinicBot.cache: [data, last_update]
    pc,         \* per session: "idle", or the await of fetch_data() it is at
    ev,         \* per session: the update being (or last) handled
    pre,        \* per session: nav_stack when that update arrived
    nav,        \* per session: context.user_data['nav_stack']
    flight,     \* per session: the sheet contents the fetch in flight has read, or 0
    got,        \* per session: the list get_menu_data() returned to the handler
    shown,      \* per session: the last render the handler of ev handed to the transport
    hf,         \* per session: fetches started while handling ev
    tx,         \* the call of _safe_send_message / _safe_edit_message under way
    displayed,  \* what the chat shows in the message that call is about
    trail,      \* per session: what its screen showed when ev arrived, see Arrives
    since,      \* when the fetches in flight and the fetch of the list stored began, see Track
    fcall,      \* a function of the program applied on its own: which, and its arguments
    fret        \* whether that application has returned, and what

vars ==
    <<sheet, now, cache, pc, ev, pre, nav, flight, got, shown, hf, trail, since,
      tx, displayed, fcall, fret>>

\* A list object: its identity and its elements.  Object 0 stands for the
\* empty lists made by DataCache.__init__ and DataCache.clear; a list that
\* fetch_data builds gets the least identity no live reference holds (the
\* cache's data and each handler's menu_data), as an allocator reuses memory.
EmptyList == [id |-> 0, items |-> <<>>]
NoList == [id |-> 0 - 1, items |-> <<>>]
NoFlight == 0
ObjectIds == 1..(Cardinality(Sessions) + 2)
NoEvent == [kind |-> "none", data |-> <<>>]

Reserved == {BACK, REFRESH, MAIN_MENU}
Queries == {<<"e"," ">>, <<"E","L"," ">>}

\* the list object fetch_data returns
NewList(items) ==
    LET live == {cache.data.id} \cup {got[x].id : x \in Sessions}
    IN  [id |-> SetMin(ObjectIds \ live), items |-> items]

\* a validity test for a time to live of zero
is_valid_ttl_zero(c, t) == c.last_update # NoTime /\ t - c.last_update < 0
\* a validity test that still serves the entry at the boundary
is_valid_at_boundary(c, t) == c.last_update # NoTime /\ t - c.last_update <= CACHE_DURATION
\* DataCache.is_valid
is_valid(c, t) == c.last_update # NoTime /\ t - c.last_update < CACHE_DURATION
\* DataCache.update
update(c, data, t) == [data |-> data, last_update |-> t]
\* clear that forgets to reset the timestamp
clear_keeps_timestamp(c) == [data |-> EmptyList, last_update |-> c.last_update]
\* clear that empties the list object in place
clear_in_place(c) == [data |-> [id |-> c.data.id, items |-> <<>>], last_update |-> NoTime]
\* DataCache.clear
clear(c) == [data |-> EmptyList, last_update |-> NoTime]

\* NavigationManager.push_to_nav_stack
push_to_nav_stack(stack, item_id) == Append(stack, item_id)
\* a pop that removes the first entry
pop_first_from_nav_stack(stack) == IF stack = <<>> THEN stack ELSE SubSeq(stack, 2, Len(stack))
\* NavigationManager.pop_from_nav_stack: the stack it leaves
pop_from_nav_stack(stack) == IF stack = <<>> THEN stack ELSE SubSeq(stack, 1, Len(stack) - 1)
\* NavigationManager.clear_nav_stack
clear_nav_stack(stack) == <<>>

\* A body and a keyboard, as the transport compares them.
Contents == [text : {"x", "y"}, reply_markup : {"k", "m"}]
\* op: which of the two functions; message: the Message object the caller
\* holds (edit only); new: the text and reply_markup to deliver; at: where
\* the call is; attempts: calls of send_message / edit_text made so far.
NoCall == [op |-> "none", message |-> [text |-> "x", reply_markup |-> "k"],
           new |-> [text |-> "x", reply_markup |-> "k"],
           at |-> "idle", attempts |-> 0, result |-> "none"]

NoApply == [fn |-> "none", args |-> <<>>]
NoResult == [done |-> FALSE, value |-> <<>>]

Init ==
    /\ sheet \in SheetIds
    /\ now = 0
    /\ cache = [data |-> EmptyList, last_update |-> NoTime]
    /\ pc = [s \in Sessions |-> "idle"]
    /\ ev = [s \in Sessions |-> NoEvent]
    /\ pre = [s \in Sessions |-> <<>>]
    /\ nav = [s \in Sessions |-> <<>>]
    /\ flight = [s \in Sessions |-> NoFlight]
    /\ got = [s \in Sessions |-> NoList]
    /\ shown = [s \in Sessions |-> NothingShown]
    /\ hf = [s \in Sessions |-> 0]
    /\ trail = [s \in Sessions |-> "off"]
    /\ since = [on |-> FALSE, began |-> [s \in Sessions |-> NoTime], stored |-> NoTime]
    /\ tx = NoCall
    /\ displayed = [text |-> "x", reply_markup |-> "k"]
    /\ fcall = NoApply
    /\ fret = NoResult

\* ---------------------------------------------------------------- handlers
FetchPcs ==
    {"fetch_item", "fetch_main", "fetch_back", "fetch_refresh", "fetch_search", "fetch_contacts"}

\* What a handler does, without awaiting, once get_menu_data() has returned
\* menu_data to the call site k: the stack it leaves and what it renders.
\* again: it ends in _show_main_menu, which calls get_menu_data() once more.
Continue(k, stack, data, menu_data) ==
    CASE k = "fetch_item" ->
           \* handle_callback_query, lines 433-441
           LET item == _find_menu_item(menu_data, data)
           IN  IF item = None
               THEN [nav |-> stack, shown |-> _show_error("error:not_found"), again |-> FALSE]
               ELSE [nav |-> push_to_nav_stack(stack, item[1].callback_data),
                     shown |-> _show_item_content(item[1], menu_data), again |-> FALSE]
      [] k = "fetch_back" ->
           \* _handle_back_button, lines 659-670, after the pop
           LET previous_id == IF stack = <<>> THEN <<>> ELSE stack[Len(stack)]
               previous_item == IF previous_id = <<>> THEN None
                                ELSE _find_menu_item(menu_data, previous_id)
           IN  IF previous_item = None
               THEN [nav |-> stack, shown |-> _show_main_menu(menu_data), again |-> TRUE]
               ELSE [nav |-> stack,
                     shown |-> _show_item_content(previous_item[1], menu_data), again |-> FALSE]
      [] k = "fetch_refresh" ->
           \* _handle_refresh, lines 681-682
           [nav |-> clear_nav_stack(stack), shown |-> _show_main_menu(menu_data), again |-> TRUE]
      [] k = "fetch_contacts" ->
           \* _show_contacts, lines 575-581
           LET contacts_item == _find_menu_item(menu_data, data)
           IN  IF contacts_item = None
               THEN [nav |-> stack, shown |-> Render("contacts_unavailable", None, <<>>),
                     again |-> FALSE]
               ELSE [nav |-> stack,
                     shown |-> _show_item_content(contacts_item[1], menu_data), again |-> FALSE]
      [] k = "fetch_search" ->
           \* _handle_search, lines 590-624
           [nav |-> stack, shown |-> _handle_search(menu_data, data), again |-> FALSE]
      [] OTHER ->
           \* _show_main_menu, lines 550-570
           [nav |-> stack, shown |-> _show_main_menu(menu_data), again |-> FALSE]

\* update.message.reply_text is not guarded: the "nothing found" reply of
\* _handle_search and the two replies of _show_contacts may raise, and the
\* application then calls error_handler.
Outcomes(k, r) ==
    {r} \cup (IF r.shown.kind = "search_nothing" \/ k = "fetch_contacts"
              THEN {[r EXCEPT !.shown = error_handler]} ELSE {})

\* a return that writes the stack it leaves into one stack all sessions share
Finish_one_stack(s, r, menu_data, n) ==
    /\ pc' = [pc EXCEPT ![s] = "idle"]
    /\ nav' = [t \in Sessions |-> r.nav]
    /\ shown' = [shown EXCEPT ![s] = r.shown]
    /\ got' = [got EXCEPT ![s] = menu_data]
    /\ flight' = [flight EXCEPT ![s] = NoFlight]
    /\ hf' = [hf EXCEPT ![s] = n]

\* The handler of session s returns.
Finish(s, r, menu_data, n) ==
    /\ pc' = [pc EXCEPT ![s] = "idle"]
    /\ nav' = [nav EXCEPT ![s] = r.nav]
    /\ shown' = [shown EXCEPT ![s] = r.shown]
    /\ got' = [got EXCEPT ![s] = menu_data]
    /\ flight' = [flight EXCEPT ![s] = NoFlight]
    /\ hf' = [hf EXCEPT ![s] = n]

\* get_menu_data, line 316: the handler of session s awaits fetch_data().
Await(s, k, stack, sh, n) ==
    /\ pc' = [pc EXCEPT ![s] = k]
    /\ nav' = [nav EXCEPT ![s] = stack]
    /\ shown' = [shown EXCEPT ![s] = sh]
    /\ got' = [got EXCEPT ![s] = NoList]
    /\ flight' = [flight EXCEPT ![s] = sheet]
    /\ hf' = [hf EXCEPT ![s] = n]

\* ClinicBot.get_menu_data(force_refresh=False) called at site k by the
\* handler of session s, up to its await or to the handler's return.
get_menu_data(s, k, stack, data, sh) ==
    IF is_valid(cache, now)
    THEN \E r \in Outcomes(k, Continue(k, stack, data, cache.data.items)) :
            Finish(s, r, cache.data, 0)
    ELSE Await(s, k, stack, sh, 1)

\* An update of session s reaches its handler.  trail records the screen the
\* update was sent from: "root" when the last render is the root menu,
\* "root_item" when it is the content of an item that the update before
\* selected on the root menu, "other" otherwise; "off" where the behaviour
\* started without this record (Init) and keeps none.
\* The record of when fetches began, kept where the behaviour started with
\* it on (InitOrder): began[s] is the time at which the fetch that session s
\* awaits began, stored the time at which the fetch began whose list the
\* cache holds, NoTime when it holds the list of no fetch.  It is written
\* after a step of a handler of s, from what the step did.
Track(s) ==
    since' = IF ~since.on THEN since
             ELSE [on |-> TRUE,
                   began |-> IF pc'[s] \in FetchPcs
                             THEN [since.began EXCEPT ![s] = now] ELSE since.began,
                   stored |-> IF cache'.data = cache.data THEN since.stored
                              ELSE IF cache'.last_update = NoTime THEN NoTime
                              ELSE since.began[s]]

Arrives(s, kind, data) ==
    /\ pc[s] = "idle"
    /\ ev' = [ev EXCEPT ![s] = [kind |-> kind, data |-> data]]
    /\ pre' = [pre EXCEPT ![s] = nav[s]]
    /\ trail' = [trail EXCEPT ![s] =
                   IF trail[s] = "off" THEN "off"
                   ELSE IF shown[s].kind = "main_menu" THEN "root"
                   ELSE IF /\ trail[s] = "root" /\ ev[s].kind = "callback"
                           /\ shown[s].item # None
                        THEN "root_item" ELSE "other"]
    /\ UNCHANGED <<sheet, now, tx, displayed, fcall, fret>>

\* ClinicBot._handle_back_button
_handle_back_button(s) ==
    /\ UNCHANGED cache
    /\ IF Len(nav[s]) < 2
       THEN get_menu_data(s, "fetch_main", nav[s], BACK, NothingShown)
       ELSE get_menu_data(s, "fetch_back", pop_from_nav_stack(nav[s]), BACK, NothingShown)

\* ClinicBot._handle_refresh
_handle_refresh(s) ==
    \/ \* query.edit_message_text raises: caught at line 443
       /\ UNCHANGED cache
       /\ Finish(s, [nav |-> nav[s], shown |-> _show_error("error:failed")], NoList, 0)
    \/ /\ cache' = clear(cache)
       /\ Await(s, "fetch_refresh", nav[s], RefreshNotice, 1)

\* a handler that looks for an item before it looks at the reserved actions
handle_callback_query_item_first(s, d) ==
    /\ Arrives(s, "callback", d)
    /\ \/ /\ UNCHANGED cache
          /\ Finish(s, [nav |-> nav[s], shown |-> error_handler], NoList, 0)
       \/ d = REFRESH /\ _handle_refresh(s)
       \/ /\ d = MAIN_MENU
          /\ UNCHANGED cache
          /\ get_menu_data(s, "fetch_main", clear_nav_stack(nav[s]), d, NothingShown)
       \/ /\ d \notin {REFRESH, MAIN_MENU}
          /\ Len(nav[s]) < MaxStack
          /\ UNCHANGED cache
          /\ get_menu_data(s, "fetch_item", nav[s], d, NothingShown)
    /\ Track(s)

\* ClinicBot.handle_callback_query
handle_callback_query(s, d) ==
    /\ Arrives(s, "callback", d)
    /\ \/ \* query.answer() raises, outside the try
          /\ UNCHANGED cache
          /\ Finish(s, [nav |-> nav[s], shown |-> error_handler], NoList, 0)
       \/ d = BACK /\ _handle_back_button(s)
       \/ d = REFRESH /\ _handle_refresh(s)
       \/ /\ d = MAIN_MENU
          /\ UNCHANGED cache
          /\ get_menu_data(s, "fetch_main", clear_nav_stack(nav[s]), d, NothingShown)
       \/ /\ d \notin Reserved
          /\ Len(nav[s]) < MaxStack
          /\ UNCHANGED cache
          /\ get_menu_data(s, "fetch_item", nav[s], d, NothingShown)
    /\ Track(s)

\* ClinicBot.menu_command, also reached from handle_text_message with MENU_BUTTON
menu_command(s) ==
    /\ Arrives(s, "menu", <<>>)
    /\ UNCHANGED cache
    /\ \/ \* update.message.reply_text raises
          Finish(s, [nav |-> clear_nav_stack(nav[s]), shown |-> error_handler], NoList, 0)
       \/ get_menu_data(s, "fetch_main", clear_nav_stack(nav[s]), <<>>, MenuLoading)
    /\ Track(s)

\* ClinicBot._show_contacts, reached from handle_text_message with CONTACTS_BUTTON
_show_contacts(s) ==
    /\ Arrives(s, "contacts", MAIN_CONTACTS)
    /\ UNCHANGED cache
    /\ get_menu_data(s, "fetch_contacts", nav[s], MAIN_CONTACTS, NothingShown)
    /\ Track(s)

\* a text handler that searches for every text that is not empty
handle_text_message_min1(s, q) ==
    LET search_text == Strip(q)
    IN  /\ Arrives(s, "text", search_text)
        /\ UNCHANGED cache
        /\ IF Len(search_text) < 1
           THEN \E sh \in {Render("search_prompt", None, <<>>), error_handler} :
                   Finish(s, [nav |-> nav[s], shown |-> sh], NoList, 0)
           ELSE get_menu_data(s, "fetch_search", nav[s], search_text, NothingShown)
        /\ Track(s)

\* ClinicBot.handle_text_message with a text that is no button label
handle_text_message(s, q) ==
    LET search_text == Strip(q)
    IN  /\ Arrives(s, "text", search_text)
        /\ UNCHANGED cache
        /\ IF Len(search_text) < 2
           THEN \E sh \in {Render("search_prompt", None, <<>>), error_handler} :
                   Finish(s, [nav |-> nav[s], shown |-> sh], NoList, 0)
           ELSE get_menu_data(s, "fetch_search", nav[s], search_text, NothingShown)
        /\ Track(s)

\* a get that fetches a second time when its first fetch raises
FetchReturns_retrying(s) ==
    /\ pc[s] \in FetchPcs
    /\ UNCHANGED <<sheet, now, ev, pre, trail, tx, displayed, fcall, fret>>
    /\ \/ /\ UNCHANGED cache
          /\ IF hf[s] < 2
             THEN Await(s, pc[s], nav[s], shown[s], hf[s] + 1)
             ELSE Finish(s, [nav |-> nav[s], shown |-> error_handler], NoList, hf[s])
       \/ LET data == NewList(fetch_data(Sheets[flight[s]]))
              c == update(cache, data, now)
              r == Continue(pc[s], nav[s], ev[s].data, c.data.items)
          IN  /\ cache' = c
              /\ \E o \in Outcomes(pc[s], r) : Finish(s, o, c.data, hf[s])
    /\ Track(s)

\* get_menu_data, lines 316-319: fetch_data() returns or raises in session s.
FetchReturns(s) ==
    /\ pc[s] \in FetchPcs
    /\ UNCHANGED <<sheet, now, ev, pre, trail, tx, displayed, fcall, fret>>
    /\ \/ \* the fetch raises: to line 443 in a callback, else to error_handler
          /\ UNCHANGED cache
          /\ Finish(s, [nav |-> nav[s],
                        shown |-> IF ev[s].kind = "callback"
                                  THEN _show_error("error:failed") ELSE error_handler],
                    NoList, hf[s])
       \/ LET data == NewList(fetch_data(Sheets[flight[s]]))
              c == update(cache, data, now)
              r == Continue(pc[s], nav[s], ev[s].data, c.data.items)
          IN  /\ cache' = c
              /\ IF r.again /\ ~is_valid(c, now)
                 THEN Await(s, "fetch_main", r.nav, shown[s], hf[s] + 1)
                 ELSE \E o \in Outcomes(pc[s], r) : Finish(s, o, c.data, hf[s])
    /\ Track(s)

\* time.time() advances
Tick ==
    /\ now < MaxTime
    /\ now' = now + 1
    /\ UNCHANGED <<sheet, cache, pc, ev, pre, nav, flight, got, shown, hf, trail, since,
                 tx, displayed, fcall, fret>>

\* somebody edits the spreadsheet
EditSheet ==
    /\ \E i \in SheetIds \ {sheet} : sheet' = i
    /\ UNCHANGED <<now, cache, pc, ev, pre, nav, flight, got, shown, hf, trail, since,
                 tx, displayed, fcall, fret>>

\* What the handlers of the sessions that are not followed step by step do
\* to the cache, the only state sessions share: _handle_refresh clears it ...
OtherSessionClears ==
    /\ cache' = clear(cache)
    /\ since' = IF since.on THEN [since EXCEPT !.stored = NoTime] ELSE since
    /\ UNCHANGED <<sheet, now, pc, ev, pre, nav, flight, got, shown, hf, trail, tx, displayed, fcall, fret>>

\* ... and get_menu_data stores the list that a fetch of the sheet returned.
OtherSessionUpdates ==
    /\ cache' = update(cache, NewList(fetch_data(Sheets[sheet])), now)
    /\ since' = IF since.on THEN [since EXCEPT !.stored = now] ELSE since
    /\ UNCHANGED <<sheet, now, pc, ev, pre, nav, flight, got, shown, hf, trail, tx, displayed, fcall, fret>>

\* One session followed step by step, every input it can send, among other
\* sessions of which only the cache operations are kept.
Followed == {SetMin(Sessions)}
Next ==
    \/ \E s \in Followed : menu_command(s)
    \/ \E s \in Followed, d \in ItemIds \cup Reserved : handle_callback_query(s, d)
    \/ \E s \in Followed, q \in Queries : handle_text_message(s, q)
    \/ \E s \in Followed : _show_contacts(s)
    \/ \E s \in Followed : FetchReturns(s)
    \/ OtherSessionClears
    \/ OtherSessionUpdates
    \/ Tick
    \/ EditSheet

Spec == Init /\ [][Next]_vars

\* The same program and inputs, with the record of the screens kept in trail.
InitTrail ==
    /\ sheet \in SheetIds
    /\ now = 0
    /\ cache = [data |-> EmptyList, last_update |-> NoTime]
    /\ pc = [s \in Sessions |-> "idle"]
    /\ ev = [s \in Sessions |-> NoEvent]
    /\ pre = [s \in Sessions |-> <<>>]
    /\ nav = [s \in Sessions |-> <<>>]
    /\ flight = [s \in Sessions |-> NoFlight]
    /\ got = [s \in Sessions |-> NoList]
    /\ shown = [s \in Sessions |-> NothingShown]
    /\ hf = [s \in Sessions |-> 0]
    /\ trail = [s \in Sessions |-> "other"]
    /\ since = [on |-> FALSE, began |-> [s \in Sessions |-> NoTime], stored |-> NoTime]
    /\ tx = NoCall
    /\ displayed = [text |-> "x", reply_markup |-> "k"]
    /\ fcall = NoApply
    /\ fret = NoResult
SpecTrail == InitTrail /\ [][Next]_vars

\* Every session followed step by step, each sending button actions only.
TwoInputs == {A, REFRESH}
NextTwo ==
    \/ \E s \in Sessions, d \in TwoInputs : handle_callback_query(s, d)
    \/ \E s \in Sessions : FetchReturns(s)
    \/ Tick
    \/ EditSheet

SpecTwo == Init /\ [][NextTwo]_vars

\* The same, with the record of when the fetches began kept in since.
InitOrder ==
    /\ sheet \in SheetIds
    /\ now = 0
    /\ cache = [data |-> EmptyList, last_update |-> NoTime]
    /\ pc = [s \in Sessions |-> "idle"]
    /\ ev = [s \in Sessions |-> NoEvent]
    /\ pre = [s \in Sessions |-> <<>>]
    /\ nav = [s \in Sessions |-> <<>>]
    /\ flight = [s \in Sessions |-> NoFlight]
    /\ got = [s \in Sessions |-> NoList]
    /\ shown = [s \in Sessions |-> NothingShown]
    /\ hf = [s \in Sessions |-> 0]
    /\ trail = [s \in Sessions |-> "off"]
    /\ since = [on |-> TRUE, began |-> [s \in Sessions |-> NoTime], stored |-> NoTime]
    /\ tx = NoCall
    /\ displayed = [text |-> "x", reply_markup |-> "k"]
    /\ fcall = NoApply
    /\ fret = NoResult
SpecOrder == InitOrder /\ [][NextTwo]_vars

\* ------------------------------------------------------ delivery with retry
Handlers == <<sheet, now, cache, pc, ev, pre, nav, flight, got, shown, hf, trail, since>>

\* ClinicBot._safe_send_message is called: it calls bot.send_message.
_safe_send_message(new) ==
    /\ tx.at \in {"idle", "returned"}
    /\ tx' = [op |-> "send", message |-> new, new |-> new,
              at |-> "transport", attempts |-> 1, result |-> "none"]
    /\ UNCHANGED <<displayed, Handlers, fcall, fret>>

\* a body that calls edit_text without comparing the message first
EditBody_unchecked(call) ==
    [call EXCEPT !.at = "transport", !.attempts = call.attempts + 1]

\* ClinicBot._safe_edit_message, lines 735-743: the body up to its await
EditBody(call) ==
    IF call.message.text = call.new.text /\ call.message.reply_markup = call.new.reply_markup
    THEN [call EXCEPT !.at = "returned", !.result = "True"]
    ELSE [call EXCEPT !.at = "transport", !.attempts = call.attempts + 1]

\* ClinicBot._safe_edit_message is called with the Message the handler holds.
_safe_edit_message(message, new) ==
    /\ tx.at \in {"idle", "returned"}
    /\ tx' = EditBody([op |-> "edit", message |-> message, new |-> new,
                       at |-> "idle", attempts |-> 0, result |-> "none"])
    /\ UNCHANGED <<displayed, Handlers, fcall, fret>>

\* The transport answers the call under way: it delivers, or raises.
TransportDelivers ==
    /\ tx.at = "transport"
    /\ tx.op = "send" \/ displayed # tx.new
    /\ tx' = [tx EXCEPT !.at = "returned",
                        !.result = IF tx.op = "send" THEN "Message" ELSE "True"]
    /\ displayed' = IF tx.op = "edit" THEN tx.new ELSE displayed
    /\ UNCHANGED <<Handlers, fcall, fret>>

\* telegram.error.BadRequest "message is not modified", lines 745-747
TransportNotModified ==
    /\ tx.at = "transport" /\ tx.op = "edit" /\ displayed = tx.new
    /\ tx' = [tx EXCEPT !.at = "returned", !.result = "True"]
    /\ UNCHANGED <<displayed, Handlers, fcall, fret>>

\* any other telegram.error.TelegramError, or another exception
TransportRejects ==
    /\ tx.at = "transport"
    /\ tx' = [tx EXCEPT !.at = "returned",
                        !.result = IF tx.op = "send" THEN "None" ELSE "False"]
    /\ UNCHANGED <<displayed, Handlers, fcall, fret>>

\* telegram.error.RetryAfter: the call sleeps, lines 714-716 and 750-752
TransportThrottles ==
    /\ tx.at = "transport"
    /\ tx' = [tx EXCEPT !.at = "sleep"]
    /\ UNCHANGED <<displayed, Handlers, fcall, fret>>

\* asyncio.sleep returns: the function calls itself, lines 717 and 753
RetryAfterSleep ==
    /\ tx.at = "sleep"
    /\ tx.attempts < MaxAttempts
    /\ tx' = IF tx.op = "send" THEN [tx EXCEPT !.at = "transport", !.attempts = tx.attempts + 1]
             ELSE EditBody(tx)
    /\ UNCHANGED <<displayed, Handlers, fcall, fret>>

NextSend ==
    \/ \E new \in Contents : _safe_send_message(new)
    \/ \E message \in Contents, new \in Contents : _safe_edit_message(message, new)
    \/ TransportDelivers
    \/ TransportNotModified
    \/ TransportRejects
    \/ TransportThrottles
    \/ RetryAfterSleep

SpecSend == Init /\ [][NextSend]_vars

\* ------------------------------------------- functions applied on their own
\* MenuItem(...)
MenuItem(callback_data, parent, text, data, content_type, extra) ==
    [callback_data |-> callback_data, parent |-> parent, text |-> text,
     data |-> data, content_type |-> content_type, extra |-> extra]

\* sequences over S of length at most n
RECURSIVE SeqsUpTo(_, _)
SeqsUpTo(S, n) ==
    IF n = 0 THEN {<<>>}
    ELSE LET shorter == SeqsUpTo(S, n - 1)
         IN  shorter \cup {Append(q, x) : q \in shorter, x \in S}

\* items to search: a match in text, in data, in extra, in all three, in none
SearchItems ==
    { MenuItem(A, <<>>, <<"E","l">>, <<>>, "TEXT", <<>>),
      MenuItem(B, A, <<"a","b">>, <<"x","E","L">>, "PHONE", <<>>),
      MenuItem(B, A, <<"a","b">>, <<>>, "LINK", <<"T","e","l">>),
      MenuItem(A, B, <<"e","l">>, <<"e","l">>, "TEXT", <<"e","l">>),
      MenuItem(A, B, <<"e">>, <<"l">>, "TEXT", <<>>) }
MaxItems == 3
SearchTexts == {<<"e","l">>, <<"E","L">>, <<"b","x">>}
SearchCalls ==
    {[fn |-> "_search_items", args |-> <<items, text>>] :
        items \in SeqsUpTo(SearchItems, MaxItems), text \in SearchTexts}

\* a string of n characters
Filler(n) == [i \in 1..n |-> "x"]
\* snapshots for _handle_search: the prefixes of two lists in which seven
\* items match "el"; data of 101 and of 100 characters; in the second list
\* the first item has a text of 4000 characters
Hit(n, text, data) == MenuItem(IntToStr(n), <<>>, text \o IntToStr(n), data, "TEXT", <<>>)
Miss == MenuItem(<<"0">>, <<>>, <<"a","b">>, <<"l","e">>, "TEXT", <<>>)
ResultLists ==
    LET rest == << Miss, Hit(2, <<"E","L">>, Filler(PREVIEW_LENGTH + 1)),
                   Hit(3, <<"e","l">>, Filler(PREVIEW_LENGTH)), Hit(4, <<"e","l">>, <<>>),
                   Miss, Hit(5, <<"e","l">>, <<>>), Hit(6, <<"e","l">>, <<>>),
                   Hit(7, <<"e","l">>, <<>>) >>
    IN  { <<Hit(1, <<"e","l">>, <<>>)>> \o rest,
          <<Hit(1, <<"e","l">> \o Filler(MAX_MESSAGE_LENGTH), <<>>)>> \o rest }
HandleSearchCalls ==
    {[fn |-> "_handle_search", args |-> <<SubSeq(list, 1, n), text>>] :
        list \in ResultLists, n \in 0..9, text \in {<<"e","l">>, <<"E","L","3">>}}

\* rows of the sheet: empty, blank, of 2 fields, a root of 3 fields, a child
\* with padded cells, without id, without text, of 4, 5 and 6 fields
Rows ==
    { <<>>,
      <<<<" ">>, <<>>>>,
      <<A, <<>>>>,
      <<A, <<>>, <<"t">>>>,
      <<<<" ","b"," ">>, A, <<" ","t"," ","t"," ">>>>,
      <<<<" ">>, A, <<"t">>>>,
      <<A, B, <<" ">>>>,
      <<A, <<" ">>, <<"t">>, <<" ","d"," ">>>>,
      <<B, A, <<"t">>, <<>>, <<"P","h","o","n","e">>>>,
      <<B, A, <<"t">>, <<"8">>, <<" ","p","h","o","n","e">>, <<"n"," ">>>> }
MaxRows == 2
\* get_all_values(): nothing, or a first row (a header, or a row that would
\* convert) followed by at most MaxRows rows
RawData ==
    {<<>>} \cup {<<first>> \o rows : first \in {HeaderRow, <<A, <<>>, <<"t">>>>},
                                     rows \in SeqsUpTo(Rows, MaxRows)}
FetchCalls == {[fn |-> "fetch_data", args |-> <<raw_data>>] : raw_data \in RawData}

\* rows that differ in their type cell only: absent, empty, the six names,
\* a name in capitals, a padded name, other strings
TypeCells ==
    {T_TEXT, T_PHONE, T_MENU, T_SUBMENU, T_LINK, T_EMAIL, <<>>,
     <<"P","h","o","n","e">>, <<" ","p","h","o","n","e">>, <<"t","e","l">>,
     <<"m","e","n","u","s">>, <<"t","e","x","t"," ">>}
TypedRows ==
    {<<A, <<>>, <<"t">>>>, <<A, <<>>, <<"t">>, <<"8"," ","1">>>>}
    \cup {<<A, <<>>, <<"t">>, data, type>> \o note :
             data \in {<<>>, <<"8"," ","1">>}, type \in TypeCells, note \in {<<>>, <<<<"n">>>>}}
FromRowCalls == {[fn |-> "from_row", args |-> <<row>>] : row \in TypedRows}
\* the items those rows convert to, selected in a snapshot that holds them alone
ShowTypedCalls ==
    {[fn |-> "_show_item_content", args |-> <<from_row(row)[1], from_row(row)>>] :
        row \in {r \in TypedRows : from_row(r) # None}}

\* an item of type menu and one of type submenu with the same id, selected in
\* snapshots of: two children, another child with the id of the first, an
\* item that is the child of another item
MenuParents ==
    { MenuItem(A, <<>>, <<"M","e","d">>, <<>>, "MENU", <<>>),
      MenuItem(A, B, <<"L","a","b">>, <<"8","-","2","0">>, "SUBMENU", <<>>) }
MenuEntries ==
    { MenuItem(B, A, <<"x">>, <<>>, "TEXT", <<>>),
      MenuItem(<<"c">>, A, <<"y">>, <<"8"," ","1">>, "PHONE", <<>>),
      MenuItem(B, A, <<"z">>, <<>>, "SUBMENU", <<>>),
      MenuItem(<<"d">>, B, <<"w">>, <<>>, "TEXT", <<>>) }
ShowMenuCalls ==
    {[fn |-> "_show_item_content", args |-> <<item, menu_data>>] :
        item \in MenuParents, menu_data \in SeqsUpTo(MenuEntries, MaxItems)}

\* items of every renderer whose data makes a message of exactly
\* MAX_MESSAGE_LENGTH characters as plain text, or a longer one; the item of
\* type menu is selected in a snapshot that holds a child of it
LongData ==
    {Filler(MAX_MESSAGE_LENGTH - 3), Filler(MAX_MESSAGE_LENGTH),
     Filler(MAX_MESSAGE_LENGTH + PREVIEW_LENGTH)}
ShowLongCalls ==
    {[fn |-> "_show_item_content",
      args |-> <<MenuItem(A, <<>>, <<"t">>, data, type, <<>>),
                 <<MenuItem(B, A, <<"x">>, <<>>, "TEXT", <<>>)>> >>] :
        data \in LongData, type \in {"TEXT", "PHONE", "LINK", "MENU", "EMAIL"}}

\* phone items: payloads with and without a leading 8, with other
\* characters before it, without any digit, empty, with a digit outside ASCII
PhonePayloads ==
    { <<"+","7"," ","9","9","9"," ","1","2","3"," ","4","5","6","7">>,
      <<"8"," ","(","8","0","0",")"," ","5","5">>,
      <<"8">>,
      <<"n","/","a">>,
      <<"+","8","-","8">>,
      <<"7","8">>,
      <<"a","8","b"," ","8">>,
      <<"0","0","7">>,
      <<>>, <<"8","U+0663","-","1">> }
ShowPhoneCalls ==
    {[fn |-> "_show_item_content",
      args |-> <<MenuItem(A, <<>>, <<"t">>, phone, "PHONE", extra), <<>> >>] :
        phone \in PhonePayloads, extra \in {<<>>, <<"n">>}}

Applications ==
    SearchCalls \cup HandleSearchCalls \cup FetchCalls \cup FromRowCalls
    \cup ShowTypedCalls \cup ShowMenuCalls \cup ShowLongCalls \cup ShowPhoneCalls

InitFn ==
    /\ sheet = SetMin(SheetIds)
    /\ now = 0
    /\ cache = [data |-> EmptyList, last_update |-> NoTime]
    /\ pc = [s \in Sessions |-> "idle"]
    /\ ev = [s \in Sessions |-> NoEvent]
    /\ pre = [s \in Sessions |-> <<>>]
    /\ nav = [s \in Sessions |-> <<>>]
    /\ flight = [s \in Sessions |-> NoFlight]
    /\ got = [s \in Sessions |-> NoList]
    /\ shown = [s \in Sessions |-> NothingShown]
    /\ hf = [s \in Sessions |-> 0]
    /\ trail = [s \in Sessions |-> "off"]
    /\ since = [on |-> FALSE, began |-> [s \in Sessions |-> NoTime], stored |-> NoTime]
    /\ tx = NoCall
    /\ displayed = [text |-> "x", reply_markup |-> "k"]
    /\ fcall \in Applications
    /\ fret = NoResult

\* the function applied returns value
Returns(value) ==
    /\ ~fret.done
    /\ fret' = [done |-> TRUE, value |-> value]
    /\ UNCHANGED <<fcall, tx, displayed, Handlers>>

\* ClinicBot._search_items(items, search_text)
Call_search_items ==
    /\ fcall.fn = "_search_items"
    /\ Returns(_search_items(fcall.args[1], fcall.args[2]))

\* ClinicBot._handle_search(update, search_text) once it holds menu_data:
\* the text and the reply_markup it sends
Call_handle_search ==
    /\ fcall.fn = "_handle_search"
    /\ LET menu_data == fcall.args[1]
           search_text == fcall.args[2]
           results == _search_items(menu_data, search_text)
       IN  Returns([text |-> IF results = <<>>
                             THEN NothingOpen \o search_text \o NothingClose
                             ELSE truncate_message(response_text(results, search_text)),
                    reply_markup |-> _handle_search(menu_data, search_text).actions])

\* GoogleSheetsManager.fetch_data() when get_all_values() returns raw_data
Call_fetch_data ==
    /\ fcall.fn = "fetch_data"
    /\ Returns(fetch_data(fcall.args[1]))

\* MenuItem.from_row(row)
Call_from_row ==
    /\ fcall.fn = "from_row"
    /\ Returns(from_row(fcall.args[1]))

\* ClinicBot._show_item_content(message, item, menu_data): the text and the
\* reply_markup it passes to _safe_edit_message
Call_show_item_content ==
    /\ fcall.fn = "_show_item_content"
    /\ LET r == _show_item_content(fcall.args[1], fcall.args[2])
       IN  Returns([text |-> message_text(r), reply_markup |-> r.actions])

NextFn ==
    \/ Call_search_items
    \/ Call_handle_search
    \/ Call_fetch_data
    \/ Call_from_row
    \/ Call_show_item_content

SpecFn == InitFn /\ [][NextFn]_vars

TypeOK ==
    /\ sheet \in SheetIds
    /\ now \in 0..MaxTime
    /\ \A s \in Sessions : pc[s] \in FetchPcs \cup {"idle"}
    /\ \A s \in Sessions : Len(nav[s]) <= MaxStack

\* ------------------------------------------------------------- properties
Callback(d) == [kind |-> "callback", data |-> d]
Resolves(items, id) == \E i \in DOMAIN items : items[i].callback_data = id
FirstWithId(items, id) ==
    items[CHOOSE i \in DOMAIN items :
            /\ items[i].callback_data = id
            /\ \A j \in 1..(i - 1) : items[j].callback_data # id]
HasChild(items, id) == \E i \in DOMAIN items : items[i].parent = id
\* the body the renderer's table gives an item of a snapshot
KindOf(item, items) ==
    CASE item.content_type \in {"MENU", "SUBMENU"} ->
           IF HasChild(items, item.callback_data) THEN "menu" ELSE "text"
      [] item.content_type = "PHONE" -> "phone"
      [] item.content_type = "LINK" -> "link"
      [] OTHER -> "text"
ShowsItem(sh, item, items) == sh.item = <<item>> /\ sh.kind = KindOf(item, items)
RootIds(items) ==
    LET RECURSIVE R(_)
        R(i) == IF i > Len(items) THEN <<>>
                ELSE (IF items[i].parent = <<>> THEN <<items[i].callback_data>> ELSE <<>>)
                     \o R(i + 1)
    IN  R(1)
ShowsRoots(sh, items) ==
    sh.kind = "main_menu" /\ sh.actions = RootIds(items) \o <<REFRESH>>
ShowsNotConfigured(sh) ==
    sh = [kind |-> "error:menu_not_configured", item |-> <<>>,
          actions |-> <<MAIN_MENU, REFRESH>>]
\* session s has handled a button action d and holds the snapshot it used
Handled(s, d) == pc[s] = "idle" /\ ev[s] = Callback(d) /\ got[s] # NoList

\* C1: after a back action at stack depth 0 or 1 that displayed the root
\* menu, the session's navigation stack is empty.
C1_BackAtRootEmptiesStack ==
    \A s \in Sessions :
        (Handled(s, BACK) /\ Len(pre[s]) <= 1 /\ shown[s].kind = "main_menu")
            => nav[s] = <<>>

\* C2 as stated: a refresh action that got as far as its forced fetch always
\* ends with the session's navigation stack empty.
C2_RefreshAlwaysEmptiesStack ==
    \A s \in Sessions :
        (pc[s] = "idle" /\ ev[s] = Callback(REFRESH) /\ hf[s] >= 1) => nav[s] = <<>>

\* C2 as amended: the step of a refresh action that starts the forced fetch
\* leaves the cache cleared (no data, no timestamp, so no get is served from
\* it without a fetch), from every stack depth; and when that fetch returns
\* the stack is emptied, but left as it was when the fetch raises.
C2_RefreshClears ==
    [][\A s \in Sessions :
          /\ (pc[s] = "idle" /\ pc'[s] = "fetch_refresh")
                => (cache'.last_update = NoTime /\ cache'.data = EmptyList
                    /\ \A t \in 0..MaxTime :
                          ~(cache'.last_update # NoTime
                            /\ t - cache'.last_update < CACHE_DURATION))
          /\ (pc[s] = "fetch_refresh" /\ flight'[s] = NoFlight)
                => IF cache' = cache THEN nav'[s] = nav[s] ELSE nav'[s] = <<>>]_vars

C2_Witness ==
    \E s \in Sessions :
        /\ pc[s] = "idle" /\ ev[s] = Callback(REFRESH) /\ hf[s] = 1
        /\ Len(pre[s]) = 2 /\ nav[s] = <<>> /\ shown[s].kind = "main_menu"

\* C3: one call of _safe_send_message or _safe_edit_message makes at most two
\* delivery attempts.
C3_AtMostTwoAttempts == tx.attempts <= 2

\* C4: a get_menu_data(force_refresh=False) made while the cache holds a
\* timestamp less than CACHE_DURATION old starts no fetch, leaves the cache as
\* it is and returns the list object the cache holds (the one the last get
\* stored); made at or after CACHE_DURATION, after a clear, or on first access
\* it starts a fetch of the sheet, and when that fetch returns the get stores
\* and returns a new list object holding exactly the rows fetched.
SessionVars(s) == <<ev[s], pre[s], nav[s], pc[s], got[s], shown[s], hf[s], flight[s]>>
GetNotForced(s) ==
    /\ pc[s] = "idle"
    /\ SessionVars(s)' # SessionVars(s)
    /\ got'[s] # NoList \/ pc'[s] \in FetchPcs \ {"fetch_refresh"}
C4_GetWithinTtlOrFetch ==
    [][\A s \in Sessions :
          /\ GetNotForced(s) =>
                IF cache.last_update # NoTime /\ now - cache.last_update < CACHE_DURATION
                THEN /\ pc'[s] = "idle" /\ hf'[s] = 0 /\ flight'[s] = NoFlight
                     /\ got'[s] = cache.data /\ cache' = cache
                ELSE /\ pc'[s] \in FetchPcs /\ hf'[s] = 1 /\ flight'[s] = sheet
                     /\ got'[s] = NoList /\ cache' = cache
          /\ (pc[s] \in FetchPcs /\ pc'[s] = "idle" /\ got'[s] # NoList) =>
                /\ cache'.data.items = fetch_data(Sheets[flight[s]])
                /\ cache'.data.id \notin {cache.data.id} \cup {got[t].id : t \in Sessions}
                /\ cache'.last_update = now
                /\ got'[s] = cache'.data]_vars

C4_Witness ==
    \E s \in Sessions :
        /\ pc[s] = "idle" /\ ev[s].kind = "callback" /\ hf[s] = 0
        /\ got[s] = cache.data /\ got[s].id \in ObjectIds
        /\ now - cache.last_update = CACHE_DURATION - 1

\* C5: an action whose value is an item id that resolves in the snapshot the
\* handler got appends that id to the session's stack, the entries before it
\* unchanged, and renders the first item of the snapshot with that id, by the
\* renderer's table for its content type.
C5_SelectPushesAndRenders ==
    \A s \in Sessions : \A d \in ItemIds :
        (Handled(s, d) /\ Resolves(got[s].items, d))
            => /\ nav[s] = Append(pre[s], d)
               /\ ShowsItem(shown[s], FirstWithId(got[s].items, d), got[s].items)

C5_Witness ==
    \E s \in Sessions :
        /\ Handled(s, B) /\ nav[s] = <<A, B>> /\ shown[s].kind = "menu"
        /\ Cardinality({i \in DOMAIN got[s].items : got[s].items[i].callback_data = B}) = 2

\* C6: an action whose value is an item id that does not resolve in the
\* snapshot the handler got renders the "not found" error with exactly the
\* controls main_menu and refresh, leaves the session's stack as it was, and
\* fetches at most once (the fetch of the get itself, never a second one).
C6_UnresolvedShowsNotFound ==
    \A s \in Sessions : \A d \in ItemIds :
        (Handled(s, d) /\ ~Resolves(got[s].items, d))
            => /\ shown[s] = [kind |-> "error:not_found", item |-> <<>>,
                              actions |-> <<MAIN_MENU, REFRESH>>]
               /\ nav[s] = pre[s]
               /\ hf[s] <= 1

C6_Witness ==
    \E s \in Sessions :
        /\ Handled(s, B) /\ ~Resolves(got[s].items, B)
        /\ pre[s] = <<A>> /\ nav[s] = <<A>> /\ shown[s].kind = "error:not_found"

\* C7 as stated: a back action at stack depth n >= 2 leaves the first n-1
\* entries and renders the item that is the new top if it resolves in the
\* snapshot, and the root menu if it does not.
C7_BackFallsBackToRootMenu ==
    \A s \in Sessions :
        (Handled(s, BACK) /\ Len(pre[s]) >= 2)
            => LET top == pre[s][Len(pre[s]) - 1]
               IN  /\ nav[s] = SubSeq(pre[s], 1, Len(pre[s]) - 1)
                   /\ IF Resolves(got[s].items, top)
                      THEN ShowsItem(shown[s], FirstWithId(got[s].items, top), got[s].items)
                      ELSE ShowsRoots(shown[s], got[s].items)

\* C7 as amended: a back action at stack depth n >= 2 leaves the first n-1
\* entries, also when the fetch it then needs raises; with a snapshot it
\* renders the item that is the new top if it resolves, and otherwise the root
\* menu when the snapshot has a root item and the "main menu is not
\* configured" error, with the controls main_menu and refresh, when it has none.
C7_BackPopsAndRenders ==
    \A s \in Sessions :
        /\ (pc[s] = "idle" /\ ev[s] = Callback(BACK) /\ Len(pre[s]) >= 2
                /\ shown[s] # error_handler)
              => nav[s] = SubSeq(pre[s], 1, Len(pre[s]) - 1)
        /\ (Handled(s, BACK) /\ Len(pre[s]) >= 2)
              => LET top == pre[s][Len(pre[s]) - 1]
                 IN  IF Resolves(got[s].items, top)
                     THEN ShowsItem(shown[s], FirstWithId(got[s].items, top), got[s].items)
                     ELSE IF RootIds(got[s].items) # <<>>
                          THEN ShowsRoots(shown[s], got[s].items)
                          ELSE ShowsNotConfigured(shown[s])

C7_Witness ==
    \E s \in Sessions :
        /\ Handled(s, BACK) /\ pre[s] = <<B, A>> /\ nav[s] = <<B>>
        /\ ~Resolves(got[s].items, B) /\ ShowsRoots(shown[s], got[s].items)

\* C8 as stated: a /menu request or a main_menu action that got a snapshot
\* leaves the session's stack empty and renders as controls exactly the ids of
\* the snapshot's items with empty parent, in snapshot order, then refresh.
IsMenuRequest(e) == e.kind = "menu" \/ e = Callback(MAIN_MENU)
C8_MenuAlwaysShowsRoots ==
    \A s \in Sessions :
        (pc[s] = "idle" /\ IsMenuRequest(ev[s]) /\ got[s] # NoList)
            => nav[s] = <<>> /\ ShowsRoots(shown[s], got[s].items)

\* C8 as amended: a /menu request always leaves the session's stack empty,
\* and so does a main_menu action once its callback query was answered; with
\* a snapshot that has a root item they render exactly the ids of the root
\* items, in snapshot order, then refresh; with a snapshot that has none they
\* render the "main menu is not configured" error with main_menu and refresh.
C8_MenuClearsAndShowsRoots ==
    \A s \in Sessions :
        /\ (pc[s] = "idle" /\ ev[s].kind = "menu") => nav[s] = <<>>
        /\ (pc[s] = "idle" /\ ev[s] = Callback(MAIN_MENU) /\ shown[s] # error_handler)
              => nav[s] = <<>>
        /\ (pc[s] = "idle" /\ IsMenuRequest(ev[s]) /\ got[s] # NoList)
              => IF RootIds(got[s].items) # <<>>
                 THEN ShowsRoots(shown[s], got[s].items)
                 ELSE ShowsNotConfigured(shown[s])

C8_Witness ==
    \E s \in Sessions :
        /\ pc[s] = "idle" /\ ev[s].kind = "menu" /\ got[s] # NoList
        /\ pre[s] = <<A, B>> /\ nav[s] = <<>>
        /\ shown[s].actions = <<A, REFRESH>> /\ Len(got[s].items) = 3

\* C9: an exception raised while an event is dispatched ends in a generic
\* failure notice: when the fetch of a command, a search or a button action
\* raises, the handler returns, the cache and every other session are left as
\* they were, and the user is sent the notice (for a button action the error
\* screen with main_menu and refresh, else the internal-error message); every
\* handler that returned without a snapshot, but for the search prompt, has
\* shown such a notice; and after a notice the session can have a command, a
\* search and a button action handled.
IsFailureNotice(sh, e) ==
    \/ sh = [kind |-> "internal_error", item |-> <<>>, actions |-> <<>>]
    \/ /\ e.kind = "callback"
       /\ sh = [kind |-> "error:failed", item |-> <<>>, actions |-> <<MAIN_MENU, REFRESH>>]
C9_FailureIsCaughtAndReported ==
    /\ [](\A s \in Sessions :
            (pc[s] = "idle" /\ ev[s] # NoEvent /\ got[s] = NoList
                /\ shown[s].kind # "search_prompt")
              => /\ IsFailureNotice(shown[s], ev[s])
                 /\ ENABLED menu_command(s)
                 /\ ENABLED handle_text_message(s, <<"e", "l">>)
                 /\ ENABLED handle_callback_query(s, MAIN_MENU))
    /\ [][\A s \in Sessions :
            (pc[s] \in FetchPcs /\ pc'[s] = "idle" /\ got'[s] = NoList)
              => /\ IsFailureNotice(shown'[s], ev[s])
                 /\ ev[s].kind = "callback" => shown'[s].kind = "error:failed"
                 /\ cache' = cache
                 /\ \A t \in Sessions \ {s} :
                       pc'[t] = pc[t] /\ nav'[t] = nav[t] /\ got'[t] = got[t]]_vars

C9_Witness ==
    \E s \in Sessions :
        /\ pc[s] = "idle" /\ ev[s].kind = "text" /\ hf[s] = 1 /\ got[s] = NoList
        /\ shown[s].kind = "internal_error" /\ nav[s] # <<>>

\* C10: under every interleaving of the sessions' handlers, a list that
\* get_menu_data returned to a handler is a list object built by fetch_data
\* (never the empty list that __init__ or clear leaves in the cache), it holds
\* exactly the items of one reading of the sheet, and it keeps those items
\* for as long as the handler, another handler or the cache refers to it.
C10_SnapshotIsOneWholeFetch ==
    \A s \in Sessions :
        got[s] # NoList
            => /\ got[s].id \in ObjectIds
               /\ \E i \in SheetIds : got[s].items = fetch_data(Sheets[i])
               /\ \A t \in Sessions : got[t].id = got[s].id => got[t].items = got[s].items
               /\ cache.data.id = got[s].id => cache.data.items = got[s].items

C10_Witness ==
    \E s \in Sessions : \E t \in Sessions \ {s} :
        /\ pc[s] = "fetch_refresh"
        /\ Handled(t, A) /\ hf[t] = 1 /\ got[t] = cache.data
        /\ got[s] = NoList /\ cache.last_update # NoTime

HandlerStep(s) ==
    \/ menu_command(s)
    \/ \E d \in ItemIds \cup Reserved : handle_callback_query(s, d)
    \/ \E q \in Queries : handle_text_message(s, q)
    \/ FetchReturns(s)
C12_StackOwnedBySession ==
    [][\A s \in Sessions :
          HandlerStep(s) => \A t \in Sessions \ {s} : nav'[t] = nav[t]]_vars

C12_Witness ==
    \E s \in Sessions : \E t \in Sessions \ {s} :
        /\ pc[s] = "fetch_item" /\ nav[s] = <<A>>
        /\ Handled(t, REFRESH) /\ pre[t] = <<A, A>> /\ nav[t] = <<>>

\* C13: a get whose fetch raises makes that one fetch and no other, ends the
\* handler that called it without handing it a list (the handler shows its
\* failure notice and renders nothing else), and the step in which the fetch
\* raises leaves the cache, list and timestamp, exactly as it found it.
C13_FailedFetchLeavesCache ==
    /\ [](\A s \in Sessions : hf[s] <= 1)
    /\ [][\A s \in Sessions :
            (pc[s] \in FetchPcs /\ got'[s] = NoList /\ flight'[s] # flight[s])
              => /\ cache'.data = cache.data /\ cache'.last_update = cache.last_update
                 /\ pc'[s] = "idle" /\ flight'[s] = NoFlight /\ hf'[s] = hf[s]
                 /\ shown'[s].kind \in {"error:failed", "internal_error"}
                 /\ nav'[s] = nav[s]]_vars

C13_Witness ==
    \E s \in Sessions :
        /\ pc[s] = "idle" /\ ev[s] = Callback(A) /\ hf[s] = 1 /\ got[s] = NoList
        /\ shown[s].kind = "error:failed"
        /\ cache.last_update # NoTime /\ now - cache.last_update >= CACHE_DURATION

\* C14: a text that is no button label and is shorter than 2 characters once
\* trimmed is answered with the prompt (or, when that reply raises, with the
\* internal-error notice) without a fetch, without a list from the cache and
\* with the stack and the cache unchanged; a text of 2 characters or more is
\* searched in the list the cache holds when the cache is valid, with no
\* fetch, and else starts one fetch and is searched in the list that fetch
\* returns; the stack is unchanged in every case.
SearchShown(sh, items, text) ==
    LET results == _search_items(items, text)
    IN  IF results = <<>> THEN sh.kind \in {"search_nothing", "internal_error"}
        ELSE sh.kind = "search_results"
             /\ sh.actions = Ids(Take(results, MAX_SEARCH_RESULTS))
C14_ShortTextPromptElseSearch ==
    [][\A s \in Sessions :
          /\ \A q \in Queries :
                handle_text_message(s, q) =>
                    /\ nav'[s] = nav[s] /\ cache' = cache
                    /\ IF Len(Strip(q)) < 2
                       THEN /\ shown'[s].kind \in {"search_prompt", "internal_error"}
                            /\ pc'[s] = "idle" /\ hf'[s] = 0 /\ got'[s] = NoList
                       ELSE IF cache.last_update # NoTime
                               /\ now - cache.last_update < CACHE_DURATION
                            THEN /\ pc'[s] = "idle" /\ hf'[s] = 0 /\ got'[s] = cache.data
                                 /\ SearchShown(shown'[s], cache.data.items, Strip(q))
                            ELSE /\ pc'[s] = "fetch_search" /\ hf'[s] = 1
                                 /\ flight'[s] = sheet /\ got'[s] = NoList
          /\ (pc[s] = "fetch_search" /\ got'[s] # NoList) =>
                /\ nav'[s] = nav[s] /\ hf'[s] = 1 /\ got'[s] = cache'.data
                /\ got'[s].items = fetch_data(Sheets[flight[s]])
                /\ SearchShown(shown'[s], got'[s].items, ev[s].data)]_vars

C14_Witness ==
    \E s \in Sessions :
        /\ pc[s] = "idle" /\ ev[s] = [kind |-> "text", data |-> <<"e">>]
        /\ shown[s].kind = "search_prompt" /\ hf[s] = 0 /\ got[s] = NoList
        /\ nav[s] = <<A, B>> /\ cache.last_update = NoTime

\* C15: _search_items returns exactly the items of the list for which the
\* lower-cased text is a substring of the lower-cased text, data or extra,
\* one entry for each such position of the list (also when several fields
\* match), in the order of the list.
Matches(item, text) ==
    \E field \in {item.text, item.data, item.extra} : Contains(Lower(field), Lower(text))
\* the k-th smallest element of a set of numbers
Kth(S, k) == CHOOSE i \in S : Cardinality({j \in S : j <= i}) = k
C15_SearchReturnsMatchesInOrder ==
    (fcall.fn = "_search_items" /\ fret.done)
        => LET items == fcall.args[1]
               hits == {i \in DOMAIN items : Matches(items[i], fcall.args[2])}
           IN  /\ Len(fret.value) = Cardinality(hits)
               /\ \A k \in 1..Len(fret.value) : fret.value[k] = items[Kth(hits, k)]

C15_Witness ==
    /\ fcall.fn = "_search_items" /\ fret.done
    /\ fcall.args[2] = <<"E","L">>
    /\ fcall.args[1] = << MenuItem(A, B, <<"e">>, <<"l">>, "TEXT", <<>>),
                         MenuItem(A, B, <<"e","l">>, <<"e","l">>, "TEXT", <<"e","l">>),
                         MenuItem(B, A, <<"a","b">>, <<>>, "LINK", <<"T","e","l">>) >>
    /\ Len(fret.value) = 2 /\ fret.value[1].text = <<"e","l">> /\ fret.value[2].content_type = "LINK"

\* C16 as stated: when a search has n >= 1 matches, the text sent lists
\* exactly the first min(n, 5) matches, numbered in the order of the list, the
\* controls are their ids in that order, and the text ends with the count
\* n - 5 of omitted items if and only if n > 5.
EndsWith(str, suffix) ==
    Len(str) >= Len(suffix) /\ SubSeq(str, Len(str) - Len(suffix) + 1, Len(str)) = suffix
EntryHead(k) == IntToStr(k) \o <<"."," ","<","b",">">>
ListsFirst(text, matches, m) ==
    /\ \A k \in 1..m :
          Contains(text, EntryHead(k) \o matches[k].text \o <<"<","/","b",">","\n">>)
    /\ ~Contains(text, EntryHead(m + 1))
ReportsOmitted(text, n) ==
    (n > MAX_SEARCH_RESULTS)
        <=> EndsWith(text, MoreOpen \o IntToStr(n - MAX_SEARCH_RESULTS) \o MoreClose)
MatchesOf(items, text) ==
    LET hits == {i \in DOMAIN items : Matches(items[i], text)}
    IN  [k \in 1..Cardinality(hits) |-> items[Kth(hits, k)]]
C16_ListCappedAndOmittedReported ==
    (fcall.fn = "_handle_search" /\ fret.done)
        => LET matches == MatchesOf(fcall.args[1], fcall.args[2])
               n == Len(matches)
               m == IF n < MAX_SEARCH_RESULTS THEN n ELSE MAX_SEARCH_RESULTS
           IN  n >= 1 => /\ fret.value.reply_markup = [k \in 1..m |-> matches[k].callback_data]
                         /\ ListsFirst(fret.value.text, matches, m)
                         /\ ReportsOmitted(fret.value.text, n)

\* C16 as amended: the controls are always the ids of the first min(n, 5)
\* matches in the order of the list; the text lists exactly those matches and
\* ends with the count n - 5 if and only if n > 5 as long as it was not cut,
\* and a text of more than MAX_MESSAGE_LENGTH characters is cut to that
\* length and ends with "...", entries and count after the cut being lost.
C16_ListCappedUnlessCut ==
    (fcall.fn = "_handle_search" /\ fret.done)
        => LET matches == MatchesOf(fcall.args[1], fcall.args[2])
               n == Len(matches)
               m == IF n < MAX_SEARCH_RESULTS THEN n ELSE MAX_SEARCH_RESULTS
               text == fret.value.text
           IN  n >= 1 => /\ fret.value.reply_markup = [k \in 1..m |-> matches[k].callback_data]
                         /\ IF Len(text) < MAX_MESSAGE_LENGTH \/ ~EndsWith(text, Ellipsis)
                            THEN ListsFirst(text, matches, m) /\ ReportsOmitted(text, n)
                            ELSE Len(text) = MAX_MESSAGE_LENGTH

C16_Witness ==
    /\ fcall.fn = "_handle_search" /\ fret.done
    /\ Len(fcall.args[1]) = 9 /\ fcall.args[2] = <<"e","l">>
    /\ Len(fret.value.reply_markup) = MAX_SEARCH_RESULTS
    /\ fret.value.reply_markup[MAX_SEARCH_RESULTS] = <<"5">>
    /\ EndsWith(fret.value.text, MoreOpen \o <<"2">> \o MoreClose)

\* C17: the list fetch_data builds is, in the order of the sheet, one item for
\* every row after the first that has at least 3 cells and whose first and
\* third cell are not empty once trimmed, holding the trimmed cells of that
\* row (an absent fourth or sixth cell giving an empty data or extra); the
\* first row gives no item, a row with an empty second cell gives an item
\* with an empty parent, every other row gives none, and fetch_data returns a
\* list for every sheet.
KeptRows(raw_data) ==
    {i \in 2..Len(raw_data) :
        /\ Len(raw_data[i]) >= 3
        /\ Strip(raw_data[i][1]) # <<>>
        /\ Strip(raw_data[i][3]) # <<>>}
Cell(row, j) == IF Len(row) >= j THEN Strip(row[j]) ELSE <<>>
C17_FetchKeepsWellFormedRows ==
    fcall.fn = "fetch_data"
        => LET raw_data == fcall.args[1]
               kept == KeptRows(raw_data)
           IN  IF ~fret.done THEN ENABLED Call_fetch_data
               ELSE /\ Len(fret.value) = Cardinality(kept)
                    /\ \A k \in 1..Len(fret.value) :
                          LET row == raw_data[Kth(kept, k)]
                              item == fret.value[k]
                          IN  /\ item.callback_data = Cell(row, 1)
                              /\ item.parent = Cell(row, 2)
                              /\ item.text = Cell(row, 3)
                              /\ item.data = Cell(row, 4)
                              /\ item.extra = Cell(row, 6)

C17_Witness ==
    /\ fcall.fn = "fetch_data" /\ fret.done
    /\ fcall.args[1] = << <<A, <<>>, <<"t">>>>,
                          <<A, B, <<" ">>>>,
                          <<A, <<" ">>, <<"t">>, <<" ","d"," ">>>> >>
    /\ Len(fret.value) = 1 /\ fret.value[1].parent = <<>> /\ fret.value[1].data = <<"d">>

\* C18 as stated: a row with no type cell, or with a type cell that is any
\* string other than text, phone, menu, submenu, link or email, converts to an
\* item of type text; and an item of type text is rendered as its text, then
\* its data if any, then its extra if any, with the controls back and main_menu.
TypeNames == {T_TEXT, T_PHONE, T_MENU, T_SUBMENU, T_LINK, T_EMAIL}
PlainText(item) ==
    item.text
    \o (IF item.data # <<>> THEN <<"\n","\n">> \o item.data ELSE <<>>)
    \o (IF item.extra # <<>> THEN <<"\n","\n","*"," ">> \o item.extra ELSE <<>>)
RendersPlainText ==
    (fcall.fn = "_show_item_content" /\ fret.done /\ fcall.args[1].content_type = "TEXT")
        => /\ fret.value.text = PlainText(fcall.args[1])
           /\ fret.value.reply_markup = <<BACK, MAIN_MENU>>
C18_UnknownTypeIsText ==
    /\ (fcall.fn = "from_row" /\ fret.done /\ fret.value # None)
          => LET row == fcall.args[1]
             IN  (Len(row) < 5 \/ row[5] \notin TypeNames)
                    => fret.value[1].content_type = "TEXT"
    /\ RendersPlainText

\* C18 as amended: the type cell is trimmed like every other cell before it
\* is compared, so the rows that convert to an item of type text are those
\* with no type cell or with a type cell that, trimmed, is none of the six
\* names; the rendering of an item of type text is as stated.
C18_UnknownTrimmedTypeIsText ==
    /\ (fcall.fn = "from_row" /\ fret.done /\ fret.value # None)
          => LET row == fcall.args[1]
                 names == TypeNames \ {T_TEXT}
             IN  /\ (Len(row) < 5 \/ Strip(row[5]) \notin names)
                       <=> fret.value[1].content_type = "TEXT"
    /\ RendersPlainText

C18_Witness ==
    /\ fcall.fn = "_show_item_content" /\ fret.done
    /\ fcall.args[1] = from_row(<<A, <<>>, <<"t">>, <<"8"," ","1">>, <<"P","h","o","n","e">>, <<"n">>>>)[1]
    /\ fret.value.text = <<"t","\n","\n","8"," ","1","\n","\n","*"," ","n">>
    /\ fret.value.reply_markup = <<BACK, MAIN_MENU>>

\* C19 as stated: rendering an item of type menu that has children attaches
\* one action per child, in snapshot order, with the child's id, plus refresh
\* and nothing else; rendering an item of type submenu that has children
\* attaches the same plus back.
ChildIds(menu_data, id) ==
    LET OfParent(item) == item.parent = id
        children == SelectSeq(menu_data, OfParent)
    IN  [k \in DOMAIN children |-> children[k].callback_data]
MenuShown ==
    /\ fcall.fn = "_show_item_content" /\ fret.done
    /\ fcall.args[1].content_type \in {"MENU", "SUBMENU"}
    /\ ChildIds(fcall.args[2], fcall.args[1].callback_data) # <<>>
C19_MenuChildrenAndRefresh ==
    MenuShown
        => LET ids == ChildIds(fcall.args[2], fcall.args[1].callback_data)
               markup == fret.value.reply_markup
               extra == IF fcall.args[1].content_type = "MENU" THEN {REFRESH} ELSE {REFRESH, BACK}
           IN  /\ Len(markup) = Len(ids) + Cardinality(extra)
               /\ SubSeq(markup, 1, Len(ids)) = ids
               /\ {markup[k] : k \in (Len(ids) + 1)..Len(markup)} = extra

\* C19 as amended: the actions are one per child, in snapshot order, with
\* the child's id, then main_menu and refresh for an item of type menu, and
\* back, main_menu and refresh for an item of type submenu.
C19_MenuChildrenAndControls ==
    MenuShown
        => fret.value.reply_markup
             = ChildIds(fcall.args[2], fcall.args[1].callback_data)
               \o (IF fcall.args[1].content_type = "MENU"
                   THEN <<MAIN_MENU, REFRESH>> ELSE <<BACK, MAIN_MENU, REFRESH>>)

C19_Witness ==
    /\ fcall.fn = "_show_item_content" /\ fret.done
    /\ fcall.args[1].content_type = "SUBMENU"
    /\ Len(fcall.args[2]) = 3
    /\ fcall.args[2][2].parent = B
    /\ fret.value.reply_markup = <<<<"c">>, B, BACK, MAIN_MENU, REFRESH>>

\* C20: every message text handed to the transport, by the renderer of an
\* item (menu, submenu, phone, link, text) or by the search, has at most
\* MAX_MESSAGE_LENGTH characters; the text of an item whose text and data
\* alone exceed that length has exactly MAX_MESSAGE_LENGTH characters and
\* ends with the ellipsis marker.
C20_EveryBodyWithinMaximum ==
    (fcall.fn \in {"_show_item_content", "_handle_search"} /\ fret.done)
        => /\ Len(fret.value.text) <= MAX_MESSAGE_LENGTH
           /\ (/\ fcall.fn = "_show_item_content"
               /\ Len(fcall.args[1].text) + Len(fcall.args[1].data) > MAX_MESSAGE_LENGTH)
                 => /\ Len(fret.value.text) = MAX_MESSAGE_LENGTH
                    /\ EndsWith(fret.value.text, Ellipsis)

\* C21: rendering onto a message that shows the new text and controls already
\* is a no-op that reports success: when the Message the caller holds equals
\* them, _safe_edit_message returns True without a call of edit_text; when
\* edit_text is called and the transport answers "message is not modified",
\* it returns True as well; and whatever the transport answers, the message
\* displayed stays as the first render left it.
EditCalled ==
    /\ tx.at \in {"idle", "returned"}
    /\ tx'.op = "edit" /\ tx' # tx
C21_IdenticalRenderIsNoOp ==
    [][ /\ (EditCalled /\ tx'.message = tx'.new)
            => /\ tx'.at = "returned" /\ tx'.result = "True"
               /\ tx'.attempts = 0
               /\ displayed' = displayed
        /\ (tx.op = "edit" /\ displayed = tx.new /\ TransportNotModified)
            => tx'.at = "returned" /\ tx'.result = "True"
        /\ (tx'.op = "edit" /\ displayed = tx'.new) => displayed' = displayed ]_vars

C21_Witness ==
    /\ tx.op = "edit" /\ tx.at = "returned" /\ tx.result = "True"
    /\ tx.attempts = 0
    /\ tx.message = tx.new /\ displayed = tx.new
    /\ displayed = [text |-> "y", reply_markup |-> "m"]

\* C22: the contact reference in the rendered body of a phone item is
\* "tel:+" followed by the payload with every character that is not a
\* digit removed and then, if what remains starts with 8, with that leading
\* 8 replaced by 7; the body is the text, the reference around the payload
\* as written, and the note if any.
DigitsOnly(str) ==
    LET at == {i \in DOMAIN str : str[i] \in DecimalDigits}
    IN  [k \in 1..Cardinality(at) |-> str[Kth(at, k)]]
Dialled(payload) ==
    LET d == DigitsOnly(payload)
    IN  IF Len(d) > 0 /\ d[1] = "8" THEN [k \in DOMAIN d |-> IF k = 1 THEN "7" ELSE d[k]] ELSE d
C22_PhoneReferenceIsNormalised ==
    (fcall.fn = "_show_item_content" /\ fret.done /\ fcall.args[1].content_type = "PHONE")
        => LET item == fcall.args[1]
               reference == <<"t","e","l",":","+">> \o Dialled(item.data)
           IN  fret.value.text
                 = item.text \o <<"\n","\n","*"," ","<","a"," ","h","r","e","f","=","'">>
                   \o reference \o <<"'",">">> \o item.data \o <<"<","/","a",">">>
                   \o (IF item.extra # <<>> THEN <<"\n","\n","*"," ">> \o item.extra ELSE <<>>)

C22_Witness ==
    /\ fcall.fn = "_show_item_content" /\ fret.done
    /\ fcall.args[1].content_type = "PHONE"
    /\ fcall.args[1].data = <<"8"," ","(","8","0","0",")"," ","5","5">>
    /\ fret.value.text
         = <<"t","\n","\n","*"," ","<","a"," ","h","r","e","f","=","'","t","e","l",":","+",
             "7","8","0","0","5","5","'",">",
             "8"," ","(","8","0","0",")"," ","5","5","<","/","a",">">>

\* C23: whenever the last render of a session is the content of an item (a
\* menu, submenu, phone, link or text screen), the id of that item is the
\* top entry of the navigation stack of the session.
C23_ShownItemIsTopOfStack ==
    \A s \in Sessions :
        (pc[s] = "idle" /\ shown[s].item # None)
            => /\ nav[s] # <<>>
               /\ nav[s][Len(nav[s])] = shown[s].item[1].callback_data

\* C24: if an item is selected while the root menu is the screen of the
\* session and the next event of the session is back, the root menu is
\* displayed again, unless the handler of back fails (the failure notice is
\* shown) or the snapshot it gets holds no root item.
C24_BackAfterSelectOnRootShowsRoot ==
    \A s \in Sessions :
        (pc[s] = "idle" /\ ev[s] = [kind |-> "callback", data |-> BACK]
            /\ trail[s] = "root_item")
          => \/ shown[s].kind = "main_menu"
             \/ shown[s].kind \in {"internal_error", "error:failed", "error:menu_not_configured"}

\* C25: with a positive time to live and a data source that answers, the
\* handling of one refresh makes exactly one fetch, also when the cache was
\* valid when the action arrived: the forced fetch is started whatever the
\* cache holds, and the root menu is rendered from the list that fetch
\* returned, which is the list the cache then holds.
IsRefresh(e) == e = [kind |-> "callback", data |-> REFRESH]
C25_RefreshFetchesOnce ==
    /\ [](\A s \in Sessions :
            IsRefresh(ev[s])
              => /\ hf[s] <= 1
                 /\ (pc[s] = "idle" /\ got[s] # NoList)
                       => /\ hf[s] = 1
                          /\ \/ shown[s] = [kind |-> "main_menu", item |-> <<>>,
                                             actions |-> RootIds(got[s].items) \o <<REFRESH>>]
                             \/ /\ RootIds(got[s].items) = <<>>
                                /\ shown[s].kind = "error:menu_not_configured")
    /\ [][\A s \in Sessions :
            /\ (pc[s] = "idle" /\ IsRefresh(ev'[s]) /\ pc'[s] # "idle")
                  => /\ pc'[s] = "fetch_refresh" /\ hf'[s] = 1
                     /\ flight'[s] = sheet
            /\ (pc[s] = "idle" /\ IsRefresh(ev'[s]) /\ pc'[s] = "idle" /\ ev' # ev)
                  => got'[s] = NoList /\ hf'[s] = 0
            /\ (pc[s] = "fetch_refresh" /\ pc'[s] = "idle" /\ got'[s] # NoList)
                  => /\ hf'[s] = 1
                     /\ got'[s] = cache'.data
                     /\ got'[s].items = fetch_data(Sheets[flight[s]])]_vars

C25_Witness ==
    \E s \in Sessions :
        /\ pc[s] = "idle" /\ IsRefresh(ev[s]) /\ hf[s] = 1
        /\ pre[s] = <<A>> /\ nav[s] = <<>>
        /\ now = 0 /\ cache.last_update = 0
        /\ got[s] = cache.data
        /\ shown[s] = [kind |-> "main_menu", item |-> <<>>, actions |-> <<A, REFRESH>>]

C27_ReservedActionsNeverOpenItems ==
    \A s \in Sessions :
        /\ \A i \in DOMAIN nav[s] : nav[s][i] \notin {BACK, REFRESH, MAIN_MENU}
        /\ (ev[s].kind = "callback" /\ shown[s].item # None)
              => shown[s].item[1].callback_data \notin {BACK, REFRESH, MAIN_MENU}

C27_Witness ==
    \E s \in Sessions :
        /\ pc[s] = "idle" /\ ev[s] = [kind |-> "callback", data |-> BACK]
        /\ \E i \in DOMAIN got[s].items : got[s].items[i].callback_data = BACK
        /\ pre[s] = <<B>> /\ nav[s] = <<B>>
        /\ shown[s].item = None

============================================================================
